---- MODULE Spec2Model ----
(***************************************************************************)
(* N-body simulation: the three World strategies (SequentialWorld,         *)
(* RayonWorld, WorkerThreadsWorld) of src/src/world.rs driven by the       *)
(* Application of src/src/application.rs (Spec, FairSpec, FaultSpec;       *)
(* LockSpec with the taking of each lock guard as a step; ParkedSpec with  *)
(* the threads of a dropped pool), and the                                 *)
(* Application of src/src/app.rs, which owns the particles and its update  *)
(* threads itself (AppSpec).  Each specification leaves the other          *)
(* program's variables at their load values.                               *)
(*                                                                         *)
(* Numbers.  The program computes on f64 vectors.  The model keeps one     *)
(* axis of every vector and represents a float as a record                 *)
(* [nan, v]: either NaN or an integer value (fixed point, quotients        *)
(* truncated toward zero).  NaN is absorbing in every arithmetic           *)
(* operation, as in IEEE-754.  Units are scaled so that G is an integer.   *)
(***************************************************************************)
EXTENDS Integers, Sequences, FiniteSets, TLC

\* ------------------------------------------------------------------ bounds
MaxParticles == 2
MaxSteps == 2

\* Config.num_threads as read from the environment
NumThreadsValues == {0, 1, 2}

\* inputs of create_particle and update
Positions == {0, 2}
Velocities == {0}
Masses == {0, 2}
DtValues == {1, 2}

\* ------------------------------------------------------------- arithmetic
G == 4

Fin(x) == [nan |-> FALSE, v |-> x]
NaN == [nan |-> TRUE, v |-> 0]

FAdd(a, b) == IF a.nan \/ b.nan THEN NaN ELSE Fin(a.v + b.v)
\* a float times the (finite) time step
FScale(a, k) == IF a.nan THEN NaN ELSE Fin(a.v * k)

Abs(x) == IF x < 0 THEN -x ELSE x
Sgn(x) == IF x < 0 THEN -1 ELSE IF x > 0 THEN 1 ELSE 0

\* acceleration of lhs imparted by rhs:
\*   distance = lhs.position - rhs.position
\*   acceleration = (-G * rhs.mass) / |distance|^2
\*   NaN scalar (0/0, or a NaN position) -> zero vector
\*   otherwise acceleration * (distance / |distance|), which for distance = 0
\*   and rhs.mass # 0 is (+-inf) * NaN = NaN
calculate_acceleration(lhs, rhs) ==
    IF lhs.position.nan \/ rhs.position.nan THEN Fin(0)
    ELSE LET distance == lhs.position.v - rhs.position.v IN
         IF distance = 0
         THEN IF rhs.mass = 0 THEN Fin(0) ELSE NaN
         ELSE Fin((0 - Sgn(rhs.mass)) * Sgn(distance)
                  * ((G * Abs(rhs.mass)) \div (distance * distance)))

\* the sum with the filter left out
RECURSIVE SumAccUnfiltered(_, _, _)
SumAccUnfiltered(ps, particle, i) ==
    IF i > Len(ps) THEN Fin(0)
    ELSE FAdd(calculate_acceleration(particle, ps[i]),
              SumAccUnfiltered(ps, particle, i + 1))

RECURSIVE SumAcc(_, _, _)
SumAcc(ps, particle, i) ==
    IF i > Len(ps) THEN Fin(0)
    ELSE LET rest == SumAcc(ps, particle, i + 1) IN
         IF particle.id # ps[i].id
         THEN FAdd(calculate_acceleration(particle, ps[i]), rest)
         ELSE rest

net_acceleration(ps, particle) == SumAcc(ps, particle, 1)

\* ------------------------------------------------------------------ state
VARIABLES
    world_type,      \* Application.world_type: "Threads" | "Rayon" | "Sequential"
    num_threads,     \* Config.num_threads, fixed at load
    particles,       \* the active world's particle vector
    particle_count,  \* WorkerThreadsWorld.particle_count
    dt,              \* WorkerThreadsWorld.dt, the atomic slot
    barrier_count,   \* arrivals at WorkerThreadsWorld.barrier in this generation
    pc,              \* position of the driver (thread 0) and of each worker
    dt_copy,         \* process_particles: local dt_copy, per participant
    particles_read,  \* process_particles: local particles_read, per participant
    velocities,      \* process_particles: local velocities, per participant
    particles_clone, \* RayonWorld::update: local particles_clone
    pending,         \* RayonWorld::update: indices whose task has not run yet
    rayon_dt,        \* RayonWorld::update: the dt its tasks captured
    snapshot,        \* Application::draw: local particles, dropped when draw returns
    \* history variables (read by no action, except steps in the step bound)
    steps,           \* number of update calls so far
    step_start,      \* particles when the last update call started
    step_dt,         \* dt passed to the last update call
    reads,           \* per participant: Phase 2 reads done in this pool
    commits,         \* per participant: Phase 3 commits done in this pool
    snap_commits,    \* commits, as it was when snapshot was taken
    last_op,         \* the driver's last operation
    discarded,       \* live worker threads of the pool that was dropped last
    discarded_pc,    \* position of each of them
    readers,         \* WorkerThreadsWorld.particles: holders of a read guard
    writer,          \* WorkerThreadsWorld.particles: holder of the write guard
    \* src/src/app.rs: the Application that owns the particles and the threads
    entities,        \* Application.entities
    flag,            \* Application.flag, the AtomicBool the workers spin on
    cond,            \* Application.cond: the Mutex<bool> `pending`
    dt_lock,         \* Application.dt
    barrier,         \* init_threads: arrivals at barrier in this generation
    thread_pc,       \* init_threads: position of each spawned thread
    accelerations,   \* init_threads: local accelerations, per thread
    draw_pc,         \* position of the game loop (draw / interact)
    \* history variables of app.rs
    frames,          \* number of draw calls started
    owed,            \* barrier generations completed minus completion signals
    committed,       \* threads that committed since the running draw call began
    issued           \* per creating operation, in order: the ids it gave out

world_vars == <<world_type, particles, particle_count, dt, barrier_count,
                pc, dt_copy, particles_read, velocities, particles_clone, pending,
                rayon_dt, snapshot, steps, step_start, step_dt, reads, commits,
                snap_commits, discarded, discarded_pc, readers, writer>>

app_vars == <<entities, flag, cond, dt_lock, barrier, thread_pc, accelerations,
              draw_pc, frames, owed, committed, issued>>

vars == <<num_threads, last_op, world_vars, app_vars>>

lock_vars == <<readers, writer>>

pool_vars == <<particle_count, dt, barrier_count, dt_copy, particles_read,
               velocities, reads, commits>>
rayon_vars == <<particles_clone, pending, rayon_dt>>
step_vars == <<steps, step_start, step_dt>>
snap_vars == <<snapshot, snap_commits>>

\* thread 0 is the driver; the others are the workers some configuration spawns
ThreadIds == {0} \cup UNION {1..(n - 1) : n \in NumThreadsValues}

\* thread ids of the persistent workers: for thread_id in 1..num_threads
WorkerIdsFromTwo == 2..(num_threads - 1)
WorkerIds == 1..(num_threads - 1)

\* the callers of process_particles: the driver (thread_id 0) and the workers
Participants == {0} \cup WorkerIds

\* Barrier::new(num_threads)
BarrierSizeShort == num_threads - 1
BarrierSize == num_threads

\* ------------------------------------------------------ sequential / rayon
\* the loop body shared by SequentialWorld::update and RayonWorld::update
IntegrateMassless(particle, clone, d) == [particle EXCEPT !.mass = 0]
Integrate(particle, clone, d) ==
    LET acceleration == FScale(net_acceleration(clone, particle), d)
        velocity == FAdd(particle.velocity, FScale(acceleration, d))
    IN [particle EXCEPT !.velocity = velocity,
                        !.position = FAdd(particle.position, FScale(velocity, d))]

\* for particle in self.particles.iter_mut() { ... }, from index i on
RECURSIVE SequentialLoop(_, _, _, _)
SequentialLoop(ps, clone, i, d) ==
    IF i > Len(ps) THEN ps
    ELSE SequentialLoop([ps EXCEPT ![i] = Integrate(ps[i], clone, d)],
                        clone, i + 1, d)

SequentialUpdate(ps, d) == SequentialLoop(ps, ps, 1, d)

\* ------------------------------------------------------------- worker pool
\* .skip(thread_id).step_by(num_threads): the 1-based indices of a partition
RECURSIVE StepBy(_, _, _)
StepBy(i, n, len) ==
    IF i > len THEN << >> ELSE <<i>> \o StepBy(i + n, n, len)

PartitionFromStart(thread_id, len) == StepBy(1, num_threads, len)
Partition(thread_id, len) == StepBy(thread_id + 1, num_threads, len)

\* velocities: net_acceleration(&particles_read) * dt_copy over the partition
ComputeVelocities(read, thread_id, d) ==
    LET idx == Partition(thread_id, Len(read)) IN
    [k \in 1..Len(idx) |-> FScale(net_acceleration(read, read[idx[k]]), d)]

\* iter_mut().skip().step_by().zip(velocities).for_each(...)
CommitVelocities(ps, thread_id, vel, d) ==
    LET idx == Partition(thread_id, Len(ps))
        n == IF Len(idx) < Len(vel) THEN Len(idx) ELSE Len(vel)
        pos(i) == CHOOSE k \in 1..Len(idx) : idx[k] = i
    IN [i \in 1..Len(ps) |->
          IF \E k \in 1..n : idx[k] = i
          THEN LET velocity == FAdd(ps[i].velocity, vel[pos(i)]) IN
               [ps[i] EXCEPT !.velocity = velocity,
                             !.position = FAdd(ps[i].position, FScale(velocity, d))]
          ELSE ps[i]]

\* where a participant continues once process_particles has returned:
\* the driver returns from update, a worker starts the next loop iteration
ReturnedToRead(t) == IF t = 0 THEN "idle" ELSE "read"
Returned(t) == IF t = 0 THEN "idle" ELSE "b1"

\* the statement after the commit: the second barrier.wait()
AfterCommitNoWait(t) == Returned(t)
AfterCommit(t) == "b2"

\* position after a barrier.wait() entered at position p has let t through
Passed(p, t) == IF p \in {"b1", "w1"} THEN "read" ELSE Returned(t)

NoLocals == [t \in ThreadIds |-> << >>]
Zeros == [t \in ThreadIds |-> 0]

\* WorkerThreadsWorld::new + init_worker_threads: positions of a fresh pool
FreshPool == [t \in ThreadIds |->
                IF t = 0 THEN "idle" ELSE IF t \in WorkerIds THEN "b1" ELSE "none"]
NoPool == [t \in ThreadIds |-> IF t = 0 THEN "idle" ELSE "none"]

\* threads spawned by init_threads: for i in 0..self.config.num_threads
AppThreadIds == UNION {0..(n - 1) : n \in NumThreadsValues}
Spawned == 0..(num_threads - 1)

\* app.rs load: the Application literal, then app.init_threads()
load ==
    /\ entities = << >>
    /\ flag = TRUE
    /\ cond = TRUE
    /\ dt_lock = 0
    /\ barrier = 0
    /\ thread_pc = [i \in AppThreadIds |-> IF i \in Spawned THEN "spin" ELSE "none"]
    /\ accelerations = [i \in AppThreadIds |-> << >>]
    /\ draw_pc = "idle"
    /\ frames = 0
    /\ owed = 0
    /\ committed = {}
    /\ issued = << >>

Init ==
    /\ num_threads \in NumThreadsValues
    /\ world_type = "Threads"
    /\ particles = << >>
    /\ particle_count = 0
    /\ dt = 0
    /\ barrier_count = 0
    /\ pc = FreshPool
    /\ dt_copy = Zeros
    /\ particles_read = NoLocals
    /\ velocities = NoLocals
    /\ particles_clone = << >>
    /\ pending = {}
    /\ rayon_dt = 0
    /\ snapshot = << >>
    /\ steps = 0
    /\ step_start = << >>
    /\ step_dt = 0
    /\ reads = Zeros
    /\ commits = Zeros
    /\ snap_commits = Zeros
    /\ last_op = "load"
    /\ discarded = {}
    /\ discarded_pc = [t \in ThreadIds |-> "none"]
    /\ readers = {}
    /\ writer = {}
    /\ load

DriverIdle == pc[0] = "idle"

\* the vector returned to draw lives until draw returns, before the next
\* call of the game loop
DropSnapshot == snapshot' = << >> /\ snap_commits' = Zeros

\* step_start and step_dt describe the last update only while it is the
\* driver's last operation
ForgetStep == steps' = steps /\ step_start' = << >> /\ step_dt' = 0

\* ------------------------------------------------------- driver: update(dt)
SequentialWorldUpdate(d) ==
    /\ DriverIdle /\ world_type = "Sequential" /\ steps < MaxSteps
    /\ particles' = SequentialUpdate(particles, d)
    /\ steps' = steps + 1 /\ step_start' = particles /\ step_dt' = d
    /\ last_op' = "update"
    /\ UNCHANGED <<world_type, num_threads, pc, pool_vars, rayon_vars>>
    /\ DropSnapshot
    /\ UNCHANGED <<discarded, discarded_pc, lock_vars, app_vars>>

RayonWorldUpdate(d) ==
    /\ DriverIdle /\ world_type = "Rayon" /\ steps < MaxSteps
    /\ particles_clone' = particles
    /\ pending' = 1..Len(particles)
    /\ rayon_dt' = d
    /\ pc' = [pc EXCEPT ![0] = "rayon"]
    /\ steps' = steps + 1 /\ step_start' = particles /\ step_dt' = d
    /\ last_op' = "update"
    /\ UNCHANGED <<world_type, num_threads, particles, pool_vars>>
    /\ DropSnapshot
    /\ UNCHANGED <<discarded, discarded_pc, lock_vars, app_vars>>

\* what a par_iter_mut task reads: the pre-step clone
RayonTaskInputLive == particles
RayonTaskInput == particles_clone

\* one task of par_iter_mut().for_each, tasks run in any order
RayonTask(i) ==
    /\ pc[0] = "rayon" /\ i \in pending
    /\ particles' = [particles EXCEPT ![i] = Integrate(particles[i], RayonTaskInput, rayon_dt)]
    /\ pending' = pending \ {i}
    /\ UNCHANGED <<world_type, num_threads, pc, pool_vars, particles_clone,
                   rayon_dt, step_vars, snap_vars, last_op>>
    /\ UNCHANGED <<discarded, discarded_pc, lock_vars, app_vars>>

\* for_each returns once every task has run
RayonJoin ==
    /\ pc[0] = "rayon" /\ pending = {}
    /\ pc' = [pc EXCEPT ![0] = "idle"]
    /\ particles_clone' = << >>
    /\ rayon_dt' = 0
    /\ UNCHANGED <<world_type, num_threads, particles, pool_vars, pending,
                   step_vars, snap_vars, last_op>>
    /\ UNCHANGED <<discarded, discarded_pc, lock_vars, app_vars>>

\* WorkerThreadsWorld::update: store dt, then call process_particles(.., 0, ..)
WorkerThreadsWorldUpdate(d) ==
    /\ DriverIdle /\ world_type = "Threads" /\ steps < MaxSteps
    /\ dt' = d
    /\ pc' = [pc EXCEPT ![0] = "b1"]
    /\ steps' = steps + 1 /\ step_start' = particles /\ step_dt' = d
    /\ last_op' = "update"
    /\ UNCHANGED <<world_type, num_threads, particles, particle_count,
                   barrier_count, dt_copy, particles_read, velocities, reads,
                   commits, rayon_vars>>
    /\ DropSnapshot
    /\ UNCHANGED <<discarded, discarded_pc, lock_vars, app_vars>>

\* ------------------------------------------------------ process_particles
\* barrier.wait(): the last arrival of a generation releases every waiter
BarrierWait(t) ==
    /\ t \in Participants /\ pc[t] \in {"b1", "b2"}
    /\ LET arrived == barrier_count + 1 IN
       IF arrived < BarrierSize
       THEN /\ barrier_count' = arrived
            /\ pc' = [pc EXCEPT ![t] = IF pc[t] = "b1" THEN "w1" ELSE "w2"]
       ELSE /\ barrier_count' = 0
            /\ pc' = [u \in ThreadIds |->
                        IF u = t \/ pc[u] \in {"w1", "w2"}
                        THEN Passed(pc[u], u) ELSE pc[u]]
    /\ UNCHANGED <<world_type, num_threads, particles, particle_count, dt,
                   dt_copy, particles_read, velocities, reads, commits,
                   rayon_vars, step_vars, snap_vars, last_op>>
    /\ UNCHANGED <<discarded, discarded_pc, lock_vars, app_vars>>

\* Phase 2: dt.load(Ordering::Acquire), particles.read().clone(), then the
\* partition's velocities; step_by(0) panics.  The load and the clone are one
\* step: dt is stored only by the driver outside process_particles.
\* dt.load(Ordering::Acquire)
dt_load_initial == 0
dt_load == dt

\* the read guard is a temporary of the statement that clones
read_kept(rs, t) == rs
read_unlock(rs, t) == rs \ {t}

ReadParticles(t) ==
    /\ t \in Participants /\ pc[t] = "read"
    /\ writer = {}
    /\ readers' = read_unlock(readers, t)
    /\ UNCHANGED writer
    /\ reads' = [reads EXCEPT ![t] = @ + 1]
    /\ IF num_threads = 0
       THEN /\ pc' = [pc EXCEPT ![t] = "panicked"]
            /\ UNCHANGED <<dt_copy, particles_read, velocities>>
       ELSE /\ pc' = [pc EXCEPT ![t] = "commit"]
            /\ dt_copy' = [dt_copy EXCEPT ![t] = dt_load]
            /\ particles_read' = [particles_read EXCEPT ![t] = particles]
            /\ velocities' = [velocities EXCEPT
                                ![t] = ComputeVelocities(particles, t, dt_load)]
    /\ UNCHANGED <<world_type, num_threads, particles, particle_count, dt,
                   barrier_count, commits, rayon_vars, step_vars,
                   snap_vars, last_op>>
    /\ UNCHANGED <<discarded, discarded_pc, app_vars>>

\* particles.write() ... for_each: the partition's commit under the write lock;
\* the locals are dead afterwards
Commit(t) ==
    /\ t \in Participants /\ pc[t] = "commit"
    /\ readers = {} /\ writer \subseteq {t}
    /\ writer' = {}
    /\ UNCHANGED readers
    /\ particles' = CommitVelocities(particles, t, velocities[t], dt_copy[t])
    /\ commits' = [commits EXCEPT ![t] = @ + 1]
    /\ particles_read' = [particles_read EXCEPT ![t] = << >>]
    /\ velocities' = [velocities EXCEPT ![t] = << >>]
    /\ dt_copy' = [dt_copy EXCEPT ![t] = 0]
    /\ pc' = [pc EXCEPT ![t] = AfterCommit(t)]
    /\ UNCHANGED <<world_type, num_threads, particle_count, dt, barrier_count,
                   reads, rayon_vars, step_vars, snap_vars, last_op>>
    /\ UNCHANGED <<discarded, discarded_pc, app_vars>>

\* ------------------------------------------------- driver: create_particle
\* Sequential/Rayon: id = particles.len(); Threads: id = particle_count
NewId == IF world_type = "Threads" THEN particle_count ELSE Len(particles)

\* Vec::push
push_front(ps, particle) == <<particle>> \o ps
push(ps, particle) == Append(ps, particle)

CreateParticle(position, velocity, mass) ==
    /\ DriverIdle /\ Len(particles) < MaxParticles
    /\ particles' = push(particles, [id |-> NewId, velocity |-> Fin(velocity),
                                     position |-> Fin(position), mass |-> mass])
    /\ particle_count' = IF world_type = "Threads"
                         THEN particle_count + 1 ELSE particle_count
    /\ last_op' = "create"
    /\ UNCHANGED <<world_type, num_threads, dt, barrier_count, pc, dt_copy,
                   particles_read, velocities, reads, commits, rayon_vars>>
    /\ DropSnapshot
    /\ ForgetStep
    /\ UNCHANGED <<discarded, discarded_pc, lock_vars, app_vars>>

\* --------------------------------------------------- driver: get_particles
\* self.particles.clone() / self.particles.read().clone()
get_particles == particles

\* draw; a second call in a row would return the same vector
GetParticles ==
    /\ DriverIdle
    /\ last_op # "snapshot"
    /\ snapshot' = get_particles
    /\ snap_commits' = commits
    /\ last_op' = "snapshot"
    /\ UNCHANGED <<world_type, num_threads, particles, pc, pool_vars,
                   rayon_vars>>
    /\ ForgetStep
    /\ UNCHANGED <<discarded, discarded_pc, lock_vars, app_vars>>

\* ----------------------------------------- driver: change_world_algorithm
\* the particle vector the new world is constructed with
NewWorldParticlesEmpty(ps) == << >>
NewWorldParticles(ps) == ps

\* self.world = Box::new(..): the assignment, but for the positions of the
\* threads the old world leaves behind
replace_world(new_algorithm) ==
    /\ DriverIdle
    /\ world_type' = new_algorithm
    /\ particles' = NewWorldParticles(get_particles)
    /\ pc' = IF new_algorithm = "Threads" THEN FreshPool ELSE NoPool
    /\ particle_count' = 0
    /\ dt' = 0
    /\ barrier_count' = 0
    /\ dt_copy' = Zeros
    /\ particles_read' = NoLocals
    /\ velocities' = NoLocals
    /\ reads' = Zeros
    /\ commits' = Zeros
    /\ discarded' = IF world_type = "Threads" THEN WorkerIds ELSE discarded
    /\ last_op' = "switch"
    /\ UNCHANGED <<num_threads, rayon_vars>>
    /\ DropSnapshot
    /\ ForgetStep
    /\ UNCHANGED <<lock_vars, app_vars>>

\* Spec does not follow the threads of a dropped pool
change_world_algorithm(new_algorithm) ==
    /\ replace_world(new_algorithm)
    /\ UNCHANGED discarded_pc

\* interact: Tab cycles Threads -> Rayon -> Sequential -> Threads
TabReleased ==
    change_world_algorithm(CASE world_type = "Threads" -> "Rayon"
                             [] world_type = "Rayon" -> "Sequential"
                             [] OTHER -> "Threads")

\* ------------------------------------------------------------------- spec
Update == \E d \in DtValues :
            \/ SequentialWorldUpdate(d)
            \/ RayonWorldUpdate(d)
            \/ WorkerThreadsWorldUpdate(d)

Create == \E p \in Positions, v \in Velocities, m \in Masses : CreateParticle(p, v, m)

Rayon == RayonJoin \/ \E i \in 1..MaxParticles : RayonTask(i)

Thread(t) == BarrierWait(t) \/ ReadParticles(t) \/ Commit(t)

Next ==
    \/ Update
    \/ Create
    \/ GetParticles
    \/ TabReleased
    \/ Rayon
    \/ \E t \in ThreadIds : Thread(t)

Spec == Init /\ [][Next]_vars

\* Liveness is checked on the runs whose particles all have the same mass and
\* whose steps all have the same dt: the barrier protocol reads neither.
FairUpdate ==
    \/ SequentialWorldUpdate(2)
    \/ RayonWorldUpdate(2)
    \/ WorkerThreadsWorldUpdate(2)

FairCreate == \E p \in Positions : CreateParticle(p, 0, 2)

FairNext ==
    \/ FairUpdate
    \/ FairCreate
    \/ GetParticles
    \/ TabReleased
    \/ Rayon
    \/ \E t \in ThreadIds : Thread(t)

\* the OS scheduler runs every runnable thread; rayon runs every task
FairSpec ==
    /\ Init /\ [][FairNext]_vars
    /\ \A t \in ThreadIds : WF_vars(Thread(t))
    /\ WF_vars(Rayon)

\* A worker thread ends while it runs process_particles: its closure unwinds
\* during Phase 2 or Phase 3 (parking_lot guards are released without
\* poisoning) and it never reaches its next barrier.wait().  Nothing in the
\* program raises this by itself; it is the fault the pool has to survive.
WorkerDies(t) ==
    /\ t \in WorkerIds /\ pc[t] \in {"read", "commit"}
    /\ pc' = [pc EXCEPT ![t] = "dead"]
    /\ UNCHANGED <<world_type, num_threads, particles, pool_vars, rayon_vars,
                   step_vars, snap_vars, last_op, discarded, discarded_pc,
                   lock_vars, app_vars>>

FaultNext == Next \/ \E t \in ThreadIds : WorkerDies(t)

FaultSpec == Init /\ [][FaultNext]_vars

\* The guards of process_particles, step by step.  Spec takes a guard and
\* gives it back within ReadParticles and within Commit, which is what a
\* thread does when the lock is free; here a thread first takes the guard
\* (parking_lot::RwLock: read() waits for the writer to leave, write() for
\* the writer and every reader) and runs the statement as its next step.
read_lock(t) ==
    /\ t \in Participants /\ pc[t] = "read"
    /\ t \notin readers /\ writer = {}
    /\ readers' = readers \cup {t}
    /\ UNCHANGED <<num_threads, last_op, world_type, particles, pool_vars, pc,
                   rayon_vars, step_vars, snap_vars, discarded, discarded_pc,
                   writer, app_vars>>

write_lock(t) ==
    /\ t \in Participants /\ pc[t] = "commit"
    /\ writer = {} /\ readers \subseteq {t}
    /\ writer' = {t}
    /\ UNCHANGED <<num_threads, last_op, world_type, particles, pool_vars, pc,
                   rayon_vars, step_vars, snap_vars, discarded, discarded_pc,
                   readers, app_vars>>

LockThread(t) ==
    \/ BarrierWait(t)
    \/ read_lock(t)
    \/ (t \in readers /\ ReadParticles(t))
    \/ write_lock(t)
    \/ (t \in writer /\ Commit(t))

LockNext ==
    \/ FairUpdate
    \/ FairCreate
    \/ GetParticles
    \/ TabReleased
    \/ Rayon
    \/ \E t \in ThreadIds : LockThread(t)

LockSpec == Init /\ [][LockNext]_vars

\* The threads a dropped pool leaves behind.  When change_world_algorithm
\* drops a WorkerThreadsWorld its workers stay where they are, before or
\* inside the first barrier.wait().
change_world_algorithm_parked(new_algorithm) ==
    /\ replace_world(new_algorithm)
    /\ discarded_pc' = IF world_type = "Threads"
                       THEN [t \in ThreadIds |->
                               IF t \in WorkerIds THEN pc[t] ELSE "none"]
                       ELSE discarded_pc

ParkedTabReleased ==
    change_world_algorithm_parked(CASE world_type = "Threads" -> "Rayon"
                                    [] world_type = "Rayon" -> "Sequential"
                                    [] OTHER -> "Threads")

\* A worker of the dropped pool still runs loop { process_particles(..) } on
\* the Arcs it captured: it arrives at the old barrier, whose arrivals are the
\* dropped workers that wait in it, and would go on to Phase 2 on a release.
DiscardedBarrierWait(t) ==
    /\ t \in discarded /\ discarded_pc[t] = "b1"
    /\ LET waiting == {u \in discarded : discarded_pc[u] = "w1"} IN
       discarded_pc' =
          IF Cardinality(waiting) + 1 = BarrierSize
          THEN [u \in ThreadIds |->
                  IF u \in waiting \cup {t} THEN "read" ELSE discarded_pc[u]]
          ELSE [discarded_pc EXCEPT ![t] = "w1"]
    /\ UNCHANGED <<num_threads, last_op, world_type, particles, pool_vars, pc,
                   rayon_vars, step_vars, snap_vars, discarded, lock_vars,
                   app_vars>>

ParkedNext ==
    \/ FairUpdate
    \/ FairCreate
    \/ GetParticles
    \/ ParkedTabReleased
    \/ Rayon
    \/ \E t \in ThreadIds : Thread(t)
    \/ \E t \in ThreadIds : DiscardedBarrierWait(t)

ParkedSpec == Init /\ [][ParkedNext]_vars

\* ------------------------------------------------------------ src/src/app.rs
\* The Application of app.rs owns the particles itself: N spawned threads
\* update them, started by flag and reporting through cond; the game loop
\* calls interact and draw.  Camera, benchmark and time_scale are left out.

\* interact creates particles while fewer than this many creating operations
\* have run; issued, the log of their ids, is a history variable
MaxIssued == MaxParticles

\* dt written by draw: elapsed time times time_scale
AppDtValues == {1}

\* positions drawn by generate_random_particles for its batch
RandomPositions == {<<0, 2>>}

\* mass of a particle pushed by interact (the slider and Key2 are positive)
AppMasses == {2}

\* generate_random_particles(4000), scaled
RandomBatch == 2

\* len as u16
AsU16(len) == len % 65536

\* Particle::new
ParticleNew(position, velocity, mass, id) ==
    [id |-> id, velocity |-> Fin(velocity), position |-> Fin(position),
     mass |-> mass, acceleration |-> Fin(0)]

\* solar_system(id), scaled to its first two bodies on one axis: ids id, id + 1
solar_system(id) ==
    << [id |-> id, velocity |-> Fin(0), position |-> Fin(0), mass |-> 2,
        acceleration |-> Fin(0)],
       [id |-> id + 1, velocity |-> Fin(0), position |-> Fin(2), mass |-> 1,
        acceleration |-> Fin(0)] >>

Ids(ps) == {ps[k].id : k \in 1..Len(ps)}

app_thread_vars == <<barrier, thread_pc, accelerations, owed>>
signal_vars == <<flag, cond, dt_lock>>

\* read.iter().skip(i).step_by(num_threads).map(net_acceleration).collect()
ComputeAccelerations(read, i) ==
    LET idx == Partition(i, Len(read)) IN
    [k \in 1..Len(idx) |-> net_acceleration(read, read[idx[k]])]

\* write.iter_mut().skip(i).step_by(num_threads).zip(accelerations).for_each
CommitAccelerations(es, i, acc, d) ==
    LET idx == Partition(i, Len(es))
        n == IF Len(idx) < Len(acc) THEN Len(idx) ELSE Len(acc)
        pos(j) == CHOOSE k \in 1..Len(idx) : idx[k] = j
    IN [j \in 1..Len(es) |->
          IF \E k \in 1..n : idx[k] = j
          THEN LET acceleration == acc[pos(j)]
                   velocity == FAdd(es[j].velocity, FScale(acceleration, d))
               IN [es[j] EXCEPT !.acceleration = acceleration,
                                !.velocity = velocity,
                                !.position = FAdd(es[j].position,
                                                  FScale(velocity, d))]
          ELSE es[j]]

\* the spin loop has seen flag set: take the read lock and compute.  The load
\* of flag and the read are one step: no other thread's step between them
\* depends on the load or changes what is read without being orderable first.
ReadEntities(i) ==
    /\ i \in Spawned /\ thread_pc[i] = "spin"
    /\ flag
    /\ accelerations' = [accelerations EXCEPT
                           ![i] = ComputeAccelerations(entities, i)]
    /\ thread_pc' = [thread_pc EXCEPT ![i] = "commit"]
    /\ UNCHANGED <<entities, signal_vars, barrier, owed, draw_pc,
                   frames, committed, issued, last_op, num_threads, world_vars>>

\* position of thread i once barrier.wait() returned: the last arrival is
\* the leader
ReleasedAllLeaders(i, last) == "store_leader"
Released(i, last) == IF i = last THEN "store_leader" ELSE "store"

\* read dt, commit the partition under the write lock, then
\* let is_leader = barrier.wait().  The arrival is one step with the commit:
\* it touches only the barrier, which no step but an arrival reads.
CommitEntities(i) ==
    /\ i \in Spawned /\ thread_pc[i] = "commit"
    /\ entities' = CommitAccelerations(entities, i, accelerations[i], dt_lock)
    /\ accelerations' = [accelerations EXCEPT ![i] = << >>]
    /\ committed' = IF draw_pc = "idle" THEN committed ELSE committed \cup {i}
    /\ LET arrived == barrier + 1 IN
       IF arrived < num_threads
       THEN /\ barrier' = arrived
            /\ thread_pc' = [thread_pc EXCEPT ![i] = "blocked"]
            /\ owed' = owed
       ELSE /\ barrier' = 0
            /\ thread_pc' = [j \in AppThreadIds |->
                               IF j = i \/ thread_pc[j] = "blocked"
                               THEN Released(j, i) ELSE thread_pc[j]]
            /\ owed' = owed + 1
    /\ UNCHANGED <<signal_vars, draw_pc, frames, issued, last_op,
                   num_threads, world_vars>>

\* flag.store(false, Ordering::Release); if is_leader.is_leader():
\* *pending = false; cvar.notify_one().  The signal is one step with the
\* store: pending is only ever set to false and read only by draw's wait.
StoreFlag(i) ==
    /\ i \in Spawned /\ thread_pc[i] \in {"store", "store_leader"}
    /\ flag' = FALSE
    /\ IF thread_pc[i] = "store_leader"
       THEN cond' = FALSE /\ owed' = owed - 1
       ELSE UNCHANGED <<cond, owed>>
    /\ thread_pc' = [thread_pc EXCEPT ![i] = "spin"]
    /\ UNCHANGED <<entities, dt_lock, barrier, accelerations,
                   draw_pc, frames, committed, issued, last_op,
                   num_threads, world_vars>>

\* draw: *dt = elapsed * time_scale
DrawWriteDt(d) ==
    /\ draw_pc = "idle" /\ frames < MaxSteps
    /\ dt_lock' = d
    /\ frames' = frames + 1
    /\ draw_pc' = "raise"
    /\ last_op' = "draw"
    /\ UNCHANGED <<entities, flag, cond, app_thread_vars, committed, issued,
                   num_threads, world_vars>>

\* draw: self.flag.store(true, Ordering::Release)
DrawStoreFlag ==
    /\ draw_pc = "raise"
    /\ flag' = TRUE
    /\ draw_pc' = "wait"
    /\ UNCHANGED <<entities, cond, dt_lock, app_thread_vars, frames, committed,
                   issued, last_op, num_threads, world_vars>>

\* draw: cvar.wait_while(lock.lock(), |pending| *pending), then
\* self.entities.read() for the sprites, and draw returns
DrawWait ==
    /\ draw_pc = "wait"
    /\ ~cond
    /\ draw_pc' = "idle"
    /\ committed' = {}
    /\ UNCHANGED <<entities, signal_vars, app_thread_vars, frames, issued,
                   last_op, num_threads, world_vars>>

\* interact, left button or Key2: push Particle::new(.., len as u16)
PushParticle(position, mass) ==
    /\ draw_pc = "idle"
    /\ Len(entities) < MaxParticles /\ Len(issued) < MaxIssued
    /\ LET len == Len(entities) IN
       /\ entities' = Append(entities, ParticleNew(position, 0, mass, AsU16(len)))
       /\ issued' = Append(issued, {AsU16(len)})
    /\ last_op' = "spawn"
    /\ UNCHANGED <<signal_vars, app_thread_vars, draw_pc, frames, committed,
                   num_threads, world_vars>>

\* interact, Key3: every pushed particle gets id: len as u16, len read once
generate_random_particles(positions) ==
    /\ draw_pc = "idle"
    /\ Len(entities) + RandomBatch <= MaxParticles
    /\ Len(issued) < MaxIssued
    /\ LET len == Len(entities)
           pushed == [k \in 1..RandomBatch |->
                        ParticleNew(positions[k], 0, 2, AsU16(len))]
       IN /\ entities' = entities \o pushed
          /\ issued' = Append(issued, Ids(pushed))
    /\ last_op' = "random"
    /\ UNCHANGED <<signal_vars, app_thread_vars, draw_pc, frames, committed,
                   num_threads, world_vars>>

\* interact, Key4: entities.clear(); entities.extend(solar_system(len as u16))
generate_solar_system ==
    /\ draw_pc = "idle"
    /\ Len(issued) < MaxIssued
    /\ LET len == Len(entities) IN
       /\ entities' = solar_system(AsU16(len))
       /\ issued' = Append(issued, Ids(solar_system(AsU16(len))))
    /\ last_op' = "solar"
    /\ UNCHANGED <<signal_vars, app_thread_vars, draw_pc, frames, committed,
                   num_threads, world_vars>>

\* what (*lock).clear() leaves of the vector
AfterClearKept(es) == es
AfterClear(es) == << >>

\* interact, R: only entities of the modelled fields is touched
Reset ==
    /\ draw_pc = "idle"
    /\ last_op # "reset"
    /\ entities' = AfterClear(entities)
    /\ last_op' = "reset"
    /\ UNCHANGED <<signal_vars, app_thread_vars, draw_pc, frames, committed,
                   issued, num_threads, world_vars>>

Draw == DrawStoreFlag \/ DrawWait \/ \E d \in AppDtValues : DrawWriteDt(d)

Interact ==
    \/ \E p \in Positions, m \in AppMasses : PushParticle(p, m)
    \/ \E ps \in RandomPositions : generate_random_particles(ps)
    \/ generate_solar_system
    \/ Reset

AppThread(i) ==
    \/ ReadEntities(i)
    \/ CommitEntities(i)
    \/ StoreFlag(i)

AppNext == Draw \/ Interact \/ \E i \in AppThreadIds : AppThread(i)

AppSpec == Init /\ [][AppNext]_vars

\* ----------------------------------------------------------------- claims
UpdateReturned == last_op = "update" /\ DriverIdle

\* all participants have committed the same number of steps
WholeSteps(c) == \A t \in Participants : c[t] = c[0]

\* no participant of the worker pool is inside a step
Quiescent ==
    world_type = "Threads" =>
        \A t \in Participants : pc[t] \in {"idle", "b1", "w1"}

\* C1: in the worker pool every participant's Phase 2 read observes exactly the
\* particles as they were when the step started (no commit of the same step is
\* visible to it).
C1_SnapshotIsolation ==
    world_type = "Threads" =>
        \A t \in Participants : pc[t] = "commit" => particles_read[t] = step_start

\* C2: whatever the strategy and the interleaving, a returned update(dt) leaves
\* the particles that SequentialWorld::update(dt) computes from the same input.
C2_CrossStrategyEquivalence ==
    UpdateReturned => particles = SequentialUpdate(step_start, step_dt)

\* C3: a returned RayonWorld::update(dt) leaves the particles that
\* SequentialWorld::update(dt) computes from the same input, in whatever order
\* the per-particle tasks ran.
C3_RayonEqualsSequential ==
    (world_type = "Rayon" /\ UpdateReturned)
        => particles = SequentialUpdate(step_start, step_dt)

C3_Witness ==
    /\ world_type = "Rayon" /\ UpdateReturned
    /\ Len(particles) = 2 /\ step_dt = 2
    /\ \A i \in 1..2 : particles[i].position # step_start[i].position

\* C4: in the worker pool no participant does the Phase 2 read of step k+1
\* before every participant has done the Phase 3 commit of step k.
C4_StepOrdering ==
    world_type = "Threads" =>
        \A t, u \in Participants : reads[t] <= commits[u] + 1

C4_Witness ==
    /\ world_type = "Threads" /\ num_threads = 2
    /\ reads[1] = 2 /\ commits[0] = 1 /\ pc[0] = "read"

\* C5: the ids of the live particles are pairwise distinct in every state.
C5_IdsUnique ==
    \A i, j \in 1..Len(particles) : i # j => particles[i].id # particles[j].id

\* C6: every live particle has mass > 0 (a spawn with mass <= 0 is refused).
C6_MassPositive ==
    \A i \in 1..Len(particles) : particles[i].mass > 0

\* C7: under fair scheduling every update call on a worker pool with
\* num_threads >= 1 eventually returns.
C7_StepCompletes ==
    (world_type = "Threads" /\ num_threads >= 1 /\ ~DriverIdle) ~> DriverIdle

C7_Witness ==
    /\ world_type = "Threads" /\ num_threads = 2 /\ UpdateReturned
    /\ Len(particles) < num_threads
    /\ commits[0] = 2 /\ commits[1] = 2

\* C8: a worker pool with num_threads = 1 has no worker thread, and its
\* returned update(dt) leaves the particles that SequentialWorld::update(dt)
\* computes from the same input.
C8_DegeneratePool ==
    (world_type = "Threads" /\ num_threads = 1) =>
        /\ \A t \in ThreadIds \ {0} : pc[t] = "none"
        /\ UpdateReturned => particles = SequentialUpdate(step_start, step_dt)

\* C9: a strategy switch hands the new strategy exactly the particles of the
\* old one, taken when no step is partially committed.
C9_SwitchPreservesParticles ==
    [][world_type' # world_type =>
          /\ particles' = particles
          /\ Quiescent
          /\ WholeSteps(commits)]_vars

C9_Witness ==
    /\ last_op = "switch" /\ world_type = "Rayon"
    /\ Len(particles) = 2 /\ steps >= 1
    /\ \E i \in 1..2 : particles[i].velocity # Fin(0)

\* C10: get_particles returns the collection as it is and leaves it unchanged;
\* for the worker pool the copy is the result of whole steps: every
\* participant has committed the same number of steps.
C10_SnapshotConsistent ==
    [][(last_op' = "snapshot" /\ last_op # "snapshot") =>
          /\ particles' = particles
          /\ snapshot' = particles
          /\ WholeSteps(snap_commits')
          /\ Quiescent]_vars

C10_Witness ==
    /\ last_op = "snapshot" /\ world_type = "Threads" /\ num_threads = 2
    /\ snapshot = particles /\ Len(snapshot) = 2
    /\ snap_commits[0] = 1 /\ snap_commits[1] = 1
    /\ \E i \in 1..2 : snapshot[i].velocity # Fin(0)

\* ---------------------------------------------------------------------------
\* the acceleration functions on the particle vectors the strategies hold

\* indices of the particles whose id differs from that of ps[i]
OtherIds(ps, i) == {j \in 1..Len(ps) : ps[j].id # ps[i].id}

\* sum, over a set of indices, of the accelerations imparted on ps[i]
RECURSIVE SumOver(_, _, _)
SumOver(ps, i, S) ==
    IF S = {} THEN Fin(0)
    ELSE LET j == CHOOSE k \in S : TRUE IN
         FAdd(calculate_acceleration(ps[i], ps[j]), SumOver(ps, i, S \ {j}))

Coincident(p, q) ==
    /\ ~p.position.nan
    /\ ~q.position.nan
    /\ p.position = q.position

\* C11: net_acceleration(particles, p) is the sum of calculate_acceleration(p, q)
\* over exactly the particles q whose id differs from p's: a particle with
\* p's id contributes nothing, and a particle with another id contributes its
\* term even when it sits at p's position.
C11_SelfExclusion ==
    \A i \in 1..Len(particles) :
        /\ net_acceleration(particles, particles[i])
               = SumOver(particles, i, OtherIds(particles, i))
        /\ (\A j \in 1..Len(particles) : particles[j].id = particles[i].id)
               => net_acceleration(particles, particles[i]) = Fin(0)
        /\ (\E j \in OtherIds(particles, i) :
                /\ Coincident(particles[i], particles[j])
                /\ particles[j].mass # 0)
               => net_acceleration(particles, particles[i]) = NaN

\* a step was taken on two particles that share an id and sit apart: neither
\* was accelerated by the other
C11_Witness ==
    /\ UpdateReturned
    /\ Len(particles) = 2
    /\ particles[1].id = particles[2].id
    /\ particles[1].position # particles[2].position
    /\ particles[1].mass > 0
    /\ particles[2].mass > 0
    /\ particles = step_start

\* C12: two distinct particles at the same position, the source having
\* positive mass, impart zero acceleration on each other, and no particle's
\* velocity or position is ever NaN.
C12_ZeroDistanceIsZero ==
    /\ \A i, j \in 1..Len(particles) :
          (i # j /\ Coincident(particles[i], particles[j])
                 /\ particles[j].mass > 0)
             => calculate_acceleration(particles[i], particles[j]) = Fin(0)
    /\ \A i \in 1..Len(particles) :
          ~particles[i].velocity.nan /\ ~particles[i].position.nan

\* C19: a Worker-Pool instance with zero participants is never handed out,
\* so no update of one ever panics.
C19_ZeroParticipantsRejected ==
    \A t \in ThreadIds : pc[t] # "panicked"

\* ---------------------------------------------------------------------------
\* app.rs: ids, completion signal, frames, reset

\* a step of interact that pushed particles behind the ones already there
Pushed ==
    /\ thread_pc' = thread_pc
    /\ last_op' \in {"spawn", "random"}
    /\ Len(entities') > Len(entities)

BetweenSteps == \A i \in Spawned : thread_pc[i] = "spin"

\* C13: with no step in flight, a spawn adds one particle and a batch of
\* RandomBatch adds RandomBatch particles, the old ones are kept, and the new
\* ids are pairwise distinct and distinct from every live id.
C13_GrowthByK ==
    [][(Pushed /\ BetweenSteps) =>
          LET old == Len(entities)
              new == (old + 1)..Len(entities')
          IN /\ Len(entities') = old + (IF last_op' = "random"
                                        THEN RandomBatch ELSE 1)
             /\ \A k \in 1..old : entities'[k] = entities[k]
             /\ \A k \in new : \A j \in 1..Len(entities') :
                   j # k => entities'[j].id # entities'[k].id]_vars

\* C14: an id given out by one creating operation is never given out by a
\* later one, whatever spawns, steps, resets and solar-system generations
\* came between.
C14_IdsNeverReused ==
    \A j, k \in 1..Len(issued) : j # k => issued[j] \cap issued[k] = {}

Leaders == {i \in Spawned : thread_pc[i] = "store_leader"}

\* C15: every completed barrier generation is signalled to the driver by
\* exactly one thread, its leader: the signals still owed are those of the
\* leaders that have not signalled yet, at most one at a time.
C15_SingleCompletionSignal ==
    /\ owed = Cardinality(Leaders)
    /\ owed \in {0, 1}

\* two threads finished a round over a non-empty collection and its leader
\* has signalled
C15_Witness ==
    /\ num_threads = 2
    /\ owed = 0
    /\ committed = Spawned
    /\ draw_pc = "wait"
    /\ ~cond
    /\ Len(entities) = 2
    /\ \A i \in Spawned : thread_pc[i] = "spin"

\* C16: draw returns from its wait, and reads the particles, only when every
\* thread has committed since this draw call began.
C16_DriverWaitsForStep ==
    [][(draw_pc = "wait" /\ draw_pc' = "idle") => committed = Spawned]_vars

\* a step of interact that handled R
IsReset == last_op' = "reset" /\ last_op # "reset"

\* C17: reset empties the collection and leaves the threads, the barrier, the
\* flag, the condition and dt as they are.
C17_ResetClears ==
    [][IsReset =>
          /\ entities' = << >>
          /\ UNCHANGED <<flag, cond, dt_lock, barrier, thread_pc, accelerations,
                         draw_pc, num_threads>>]_vars

\* after a reset of two particles a particle was spawned and both threads
\* updated it in a later frame
C17_Witness ==
    /\ num_threads = 2
    /\ last_op = "draw"
    /\ Len(issued) = 2
    /\ Cardinality(issued[1]) = 2
    /\ Len(entities) = 1
    /\ committed = Spawned
    /\ draw_pc = "wait"

\* C18: once a Worker-Pool strategy has been replaced, none of its worker
\* threads is alive any more.
C18_PoolTornDown == discarded = {}

\* C20: when a worker thread has died during a step, the driver's update is
\* not left blocked: as long as update has not returned, some participant of
\* the pool can still take a step.
C20_WorkerFailureSurfaced ==
    (world_type = "Threads" /\ ~DriverIdle
       /\ \E t \in WorkerIds : pc[t] = "dead")
        => \E u \in Participants : ENABLED Thread(u)

\* ---------------------------------------------------------------------------
\* steps of the strategies

\* v + a * dt, then p + v_new * dt, each particle against the pre-step vector
ExpectedStep(ps, d) ==
    [i \in 1..Len(ps) |->
       LET a == net_acceleration(ps, ps[i])
           v == FAdd(ps[i].velocity, FScale(a, d))
       IN [ps[i] EXCEPT !.velocity = v,
                        !.position = FAdd(ps[i].position, FScale(v, d))]]

\* C21: a SequentialWorld update leaves every particle with velocity
\* v + a * dt and position p + v_new * dt, a being its net acceleration
\* against the pre-step vector.
C21_SequentialStep ==
    (world_type = "Sequential" /\ UpdateReturned)
        => particles = ExpectedStep(step_start, step_dt)

\* C22: in the Worker-Pool strategy a participant past its Phase 2 holds the
\* dt of the update call that started the step, and computed with it.
C22_DtPublished ==
    world_type = "Threads" =>
        \A t \in Participants :
            pc[t] = "commit" =>
                /\ dt_copy[t] = step_dt
                /\ velocities[t]
                      = ComputeVelocities(particles_read[t], t, step_dt)

\* second update of a pool, with a dt other than the first one's: worker 1
\* holds it
C22_Witness ==
    /\ world_type = "Threads" /\ num_threads = 2
    /\ commits[1] = 1
    /\ pc[1] = "commit"
    /\ step_dt # 0
    /\ dt_copy[1] = step_dt
    /\ Len(particles) = 2
    /\ velocities[1] # <<Fin(0)>>

PartitionSet(t) ==
    LET idx == Partition(t, Len(particles)) IN {idx[k] : k \in 1..Len(idx)}

\* C23: in the Worker-Pool strategy the participant that commits owns the
\* indices i, i + N, ... and changes no particle outside them; every index
\* has exactly one owner among the participants; and between an update call
\* and its return every participant commits exactly once.
C23_ExactlyOncePerStep ==
    [][(world_type = "Threads" /\ num_threads >= 1) =>
          /\ \A t \in Participants :
                /\ commits[t] \in {commits[0] - 1, commits[0], commits[0] + 1}
                /\ pc[0] = "idle" => commits[t] = commits[0]
                /\ pc[0] \in {"b1", "w1", "read", "commit"}
                      => commits[t] >= commits[0]
                /\ pc[0] \in {"b2", "w2"} => commits[t] <= commits[0]
          /\ commits' # commits =>
                \A t \in Participants :
                   commits'[t] = commits[t] + 1 =>
                      /\ PartitionSet(t) = {i \in 1..Len(particles) :
                                              (i - 1) % num_threads = t}
                      /\ \A i \in 1..Len(particles) :
                            Cardinality({u \in Participants :
                                           i \in PartitionSet(u)}) = 1
                      /\ Len(particles') = Len(particles)
                      /\ \A i \in 1..Len(particles) :
                            i \notin PartitionSet(t)
                               => particles'[i] = particles[i]]_vars

\* an update of two threads over two particles returned: each thread
\* committed once and both particles moved
C23_Witness ==
    /\ world_type = "Threads" /\ num_threads = 2
    /\ UpdateReturned
    /\ Len(particles) = 2
    /\ commits[0] = 1 /\ commits[1] = 1
    /\ \A i \in 1..2 : particles[i].velocity # step_start[i].velocity

\* C24: interact changes the collection only while no thread is between its
\* read of the collection and its commit.
C24_NoChangeInsideStep ==
    [][(thread_pc' = thread_pc /\ entities' # entities)
          => \A i \in Spawned : thread_pc[i] # "commit"]_vars

Between(t) == pc[t] \in {"read", "commit", "b2", "w2"}
FirstPasses(t) == reads[t] + (IF pc[t] = "read" THEN 1 ELSE 0)
SecondPasses(t) == commits[t] - (IF pc[t] \in {"b2", "w2"} THEN 1 ELSE 0)

\* C26: a participant has passed the second rendezvous once for each first
\* rendezvous it passed, but for the step it is in; while it is in a step
\* every participant has passed the first rendezvous equally often; a worker
\* is never ahead of the driver.
C26_TwoRendezvous ==
    (world_type = "Threads" /\ num_threads >= 1) =>
        \A t \in Participants :
            /\ SecondPasses(t) = FirstPasses(t) - (IF Between(t) THEN 1 ELSE 0)
            /\ Between(t) => \A u \in Participants : FirstPasses(u) = FirstPasses(t)
            /\ FirstPasses(t) <= FirstPasses(0)
            /\ DriverIdle => ~Between(t)

\* the second update of a pool of two: worker 1 is between its rendezvous,
\* the driver already waits in the second one
C26_Witness ==
    /\ world_type = "Threads" /\ num_threads = 2
    /\ FirstPasses(1) = 2 /\ SecondPasses(1) = 1
    /\ pc[1] = "commit"
    /\ pc[0] = "w2"

\* C28: no thread runs a round before the first frame, and while draw waits
\* for a frame the flag it raised is cleared only after every thread has
\* committed in that frame.
C28_StartSignal ==
    /\ frames = 0 => \A i \in Spawned : thread_pc[i] = "spin"
    /\ (draw_pc = "wait" /\ ~flag) => committed = Spawned

\* C29: a step of an update, under any strategy, keeps the number of
\* particles and every particle's id and mass at its index.
C29_StepKeepsIdentity ==
    [][last_op' = "update" =>
          /\ Len(particles') = Len(particles)
          /\ \A i \in 1..Len(particles) :
                /\ particles'[i].id = particles[i].id
                /\ particles'[i].mass = particles[i].mass]_vars

\* an update over two particles returned and changed both
C29_Witness ==
    /\ UpdateReturned
    /\ world_type = "Sequential"
    /\ Len(particles) = 2
    /\ \A i \in 1..2 : particles[i].position # step_start[i].position

\* a step of create_particle
IsCreate == last_op' = "create" /\ particles' # particles

C25_LockDiscipline ==
    /\ \A t \in ThreadIds : t \in readers => pc[t] = "read"
    /\ \A t \in ThreadIds : t \in writer => (pc[t] = "commit" /\ t \notin readers)
    /\ Cardinality(writer) <= 1
    /\ writer # {} => readers = {}

\* worker 1 holds the write guard while the driver, in Phase 2, waits for
\* its read guard
C25_Witness ==
    /\ world_type = "Threads" /\ num_threads = 2
    /\ writer = {1}
    /\ pc[0] = "read" /\ 0 \notin readers
    /\ Len(particles) = 2

\* C27: every worker of a dropped pool is before or inside the first
\* barrier.wait() of process_particles.
C27_DiscardedStaysParked ==
    \A t \in discarded : discarded_pc[t] \in {"b1", "w1"}

\* the dropped worker arrived at the old barrier after the drop, and the new
\* RayonWorld has completed an update since
C27_Witness ==
    /\ discarded = {1}
    /\ discarded_pc[1] = "w1"
    /\ world_type = "Rayon"
    /\ UpdateReturned
    /\ Len(particles) = 2

====
